---------------------------- MODULE Spec2Model ----------------------------
(***************************************************************************)
(* The object/graph codec of commerce-engine-ts: class ObjectBuilder.      *)
(*                                                                         *)
(* Representation.                                                         *)
(*  - A JavaScript string is a sequence of tokens (Str).  Data strings are *)
(*    written character by character; a fixed URI or a type key is         *)
(*    abbreviated to one token.  '+' on strings is \o.                     *)
(*  - A JavaScript value is a record tagged by field t; every tag has its  *)
(*    own payload field, so two values of different kinds are unequal.     *)
(*  - A JavaScript object used as a map (the cache, a property map, a URI  *)
(*    map) is a heap cell named by a reference, so that two holders of the *)
(*    same object see each other's writes.                                 *)
(*  - The store is the sequence of its quads in insertion order (addQuad   *)
(*    ignores a quad it holds); getQuads enumerates matches in an order    *)
(*    chosen by the caller of the model (a permutation).                   *)
(*  - A thrown exception sets field thrown of the machine state and every  *)
(*    later step of the call is skipped.                                   *)
(***************************************************************************)
EXTENDS Integers, Sequences, FiniteSets, TLC

(* ------------------------------ bounds -------------------------------- *)
MaxLen == 3        \* longest array of an input object
MaxPerm == 3       \* getQuads results of up to MaxPerm quads come in every order
MaxForeign == 2    \* additions to the store by other writers than build
MaxDepth == 4      \* decodeResource calls the call stack has room for

(* ------------------------------ strings ------------------------------- *)
EmptyStr == <<>>
Digits == <<"0", "1", "2", "3", "4", "5", "6", "7", "8", "9">>

IsDigit(c) == \E d \in 1..10 : Digits[d] = c

DigitVal(c) == (CHOOSE d \in 1..10 : Digits[d] = c) - 1

RECURSIVE NumToStr(_)
\* String(n) of a non-negative integer: its decimal digits.
NumToStr(n) ==
    IF n < 10 THEN <<Digits[n + 1]>>
    ELSE NumToStr(n \div 10) \o <<Digits[(n % 10) + 1]>>

RECURSIVE DigitsToNum(_, _)
DigitsToNum(s, acc) ==
    IF s = <<>> THEN acc
    ELSE DigitsToNum(Tail(s), acc * 10 + DigitVal(Head(s)))

RECURSIVE LeadingDigits(_)
LeadingDigits(s) ==
    IF s = <<>> \/ ~IsDigit(Head(s)) THEN <<>>
    ELSE <<Head(s)>> \o LeadingDigits(Tail(s))

\* String.prototype.toLowerCase on one character of the alphabet in use.
LowerChar(c) ==
    CASE c = "A" -> "a" [] c = "B" -> "b" [] c = "C" -> "c" [] c = "D" -> "d"
      [] c = "E" -> "e" [] c = "F" -> "f" [] c = "T" -> "t" [] c = "R" -> "r"
      [] c = "U" -> "u" [] OTHER -> c

toLowerCase(s) == [i \in 1..Len(s) |-> LowerChar(s[i])]

\* String.prototype.substring(n): the string without its first n characters.
substring(s, n) == IF n >= Len(s) THEN <<>> ELSE SubSeq(s, n + 1, Len(s))

(* --------------------------- JavaScript values ------------------------ *)
SV(s) == [t |-> "string", s |-> s]
NV(n) == [t |-> "number", n |-> n]
BV(b) == [t |-> "boolean", b |-> b]
DV(day, sec) == [t |-> "Date", day |-> day, sec |-> sec]
AV(a) == [t |-> "array", a |-> a]
OV(o) == [t |-> "object", o |-> o]
Undefined == [t |-> "undefined"]
NaN == [t |-> "NaN"]
InvalidDate == [t |-> "InvalidDate"]
NoKeys == [k \in {} |-> Undefined]
EmptyObject == OV(NoKeys)

\* obj[key]
Get(obj, key) == IF key \in DOMAIN obj.o THEN obj.o[key] ELSE Undefined

\* key in obj
Has(obj, key) == key \in DOMAIN obj.o

\* obj[key] = val
Put(obj, key, val) == OV([k \in DOMAIN obj.o \cup {key} |-> IF k = key THEN val ELSE obj.o[k]])

\* Template literal `${value}`, as N3's literal() forms the lexical value.
StrTrue == <<"t", "r", "u", "e">>
StrFalse == <<"f", "a", "l", "s", "e">>
StrUndefined == <<"u", "n", "d", "e", "f", "i", "n", "e", "d">>
StrNaN == <<"N", "a", "N">>

\* Date.prototype.toLocaleDateString(): the calendar day alone.
toLocaleDateString(d) == <<"d">> \o NumToStr(d.day)

\* Date.prototype.toString(): day and time of day.
DateToString(d) == <<"d">> \o NumToStr(d.day) \o <<"T">> \o NumToStr(d.sec)

ToLexical(v) ==
    CASE v.t = "string" -> v.s
      [] v.t = "number" -> NumToStr(v.n)
      [] v.t = "boolean" -> IF v.b THEN StrTrue ELSE StrFalse
      [] v.t = "Date" -> DateToString(v)
      [] v.t = "NaN" -> StrNaN
      [] OTHER -> StrUndefined

\* Number(value)
Number(s) ==
    IF s = <<>> THEN NV(0)
    ELSE IF \A i \in 1..Len(s) : IsDigit(s[i]) THEN NV(DigitsToNum(s, 0))
    ELSE NaN

\* parseInt(value)
parseInt(s) ==
    IF LeadingDigits(s) = <<>> THEN NaN ELSE NV(DigitsToNum(LeadingDigits(s), 0))

\* new Date(value) of a lexical value
NewDate(s) ==
    IF Len(s) < 2 \/ Head(s) # "d" THEN InvalidDate
    ELSE LET rest == Tail(s)
             dd == LeadingDigits(rest)
             after == substring(rest, Len(dd))
         IN  IF dd = <<>> THEN InvalidDate
             ELSE IF after = <<>> THEN DV(DigitsToNum(dd, 0), 0)
             ELSE IF Head(after) = "T" /\ Len(after) > 1
                     /\ \A i \in 2..Len(after) : IsDigit(after[i])
                  THEN DV(DigitsToNum(dd, 0), DigitsToNum(Tail(after), 0))
             ELSE InvalidDate

\* isBeginningOfDay(date), of a Date value
isBeginningOfDay(d) == d.sec = 0

(* ------------------------------- terms -------------------------------- *)
namedNode(v) == [termType |-> "NamedNode", value |-> v]
blankNode(v) == [termType |-> "BlankNode", value |-> v]
literal(v) == [termType |-> "Literal", value |-> ToLexical(v)]
quad(s, p, o) == [s |-> s, p |-> p, o |-> o]

RDF_TYPE == <<"rdf:type">>
ITEM_LIST == <<"schema:ItemList">>
ITEM_LIST_ELEMENT == <<"schema:itemListElement">>
POSITION == <<"schema:position">>
ITEM == <<"schema:item">>


(* --------------------------- schema registry -------------------------- *)
IObject == <<"IObject">>
TString == <<"string">>
TNumber == <<"number">>
TBoolean == <<"boolean">>
TDate == <<"Date">>
TBase == <<"Base">>
TKid == <<"Kid">>
TTot == <<"Tot">>
TBox == <<"Box">>
TOrphan == <<"Orphan">>
TGhost == <<"Ghost">>

\* An AbstractProperty.
Prop(uri, type, isArray, isOptional, isMultiType) ==
    [uri |-> uri, type |-> type, isArray |-> isArray,
     isOptional |-> isOptional, isMultiType |-> isMultiType]

Entry(key, def) == [key |-> key, def |-> def]

\* The AbstractDefinitionMap the builder is constructed with.  Kid and Tot
\* extend Base and both redeclare its key kind; Orphan extends a type key that
\* is not registered; Box.bad is declared with an unregistered type key.
defs ==
    (TBase :> [uri |-> <<"T:Base">>, extends |-> IObject, properties |-> <<
        Entry("label", Prop(<<"p:label">>, TString, FALSE, TRUE, FALSE)),
        Entry("kind", Prop(<<"p:kind">>, TString, FALSE, TRUE, FALSE)) >>])
 @@ (TKid :> [uri |-> <<"T:Kid">>, extends |-> TBase, properties |-> <<
        Entry("kind", Prop(<<"p:kind">>, TNumber, FALSE, TRUE, FALSE)),
        Entry("age", Prop(<<"p:age">>, TNumber, FALSE, TRUE, FALSE)) >>])
 @@ (TTot :> [uri |-> <<"T:Tot">>, extends |-> TBase, properties |-> <<
        Entry("kind", Prop(<<"p:kinds">>, TString, TRUE, TRUE, FALSE)) >>])
 @@ (TBox :> [uri |-> <<"T:Box">>, extends |-> EmptyStr, properties |-> <<
        Entry("title", Prop(<<"p:title">>, TString, FALSE, FALSE, FALSE)),
        Entry("n", Prop(<<"p:n">>, TNumber, FALSE, TRUE, FALSE)),
        Entry("ok", Prop(<<"p:ok">>, TBoolean, FALSE, TRUE, FALSE)),
        Entry("at", Prop(<<"p:at">>, TDate, FALSE, TRUE, FALSE)),
        Entry("tags", Prop(<<"p:tags">>, TString, TRUE, TRUE, FALSE)),
        Entry("item", Prop(<<"p:item">>, TBase, FALSE, TRUE, FALSE)),
        Entry("items", Prop(<<"p:items">>, TBase, TRUE, TRUE, FALSE)),
        Entry("any", Prop(<<"p:any">>, TBase, FALSE, TRUE, TRUE)),
        Entry("bad", Prop(<<"p:bad">>, TGhost, FALSE, TRUE, FALSE)),
        Entry("uuid", Prop(<<"p:uuid">>, TString, FALSE, TRUE, FALSE)) >>])
 @@ (TOrphan :> [uri |-> <<"T:Orphan">>, extends |-> TGhost, properties |-> <<
        Entry("label", Prop(<<"p:label">>, TString, FALSE, TRUE, FALSE)) >>])

\* def.propertyUris: the URI -> key map of the type's own properties.
propertyUris(def) ==
    [i \in 1..Len(def.properties) |->
        [uri |-> def.properties[i].def.uri, key |-> def.properties[i].key]]

\* this.typeDefs, as the constructor fills it: type URI -> type key.
typeDefs ==
    [u \in {defs[k].uri : k \in DOMAIN defs} |-> CHOOSE k \in DOMAIN defs : defs[k].uri = u]

(* ----------------- JavaScript objects used as maps -------------------- *)
\* An AbstractPropertyMap keeps its keys in insertion order (Object.entries).
HasKey(pm, key) == \E i \in 1..Len(pm) : pm[i].key = key

Lookup(pm, key) == pm[CHOOSE i \in 1..Len(pm) : pm[i].key = key].def

\* allProps[key] = value
Assign(pm, key, def) ==
    IF HasKey(pm, key)
    THEN [i \in 1..Len(pm) |-> IF pm[i].key = key THEN Entry(key, def) ELSE pm[i]]
    ELSE Append(pm, Entry(key, def))

RECURSIVE AssignAll(_, _)
\* Object.entries(def.properties).forEach(([key, value]) => allProps[key] = value)
AssignAll(pm, entries) ==
    IF entries = <<>> THEN pm
    ELSE AssignAll(Assign(pm, Head(entries).key, Head(entries).def), Tail(entries))

\* A URI map is read by key only: a function from URI to property key.
NoUris == [u \in {} |-> ""]

RECURSIVE AssignAllUris(_, _)
AssignAllUris(um, entries) ==
    IF entries = <<>> THEN um
    ELSE AssignAllUris(
            [u \in DOMAIN um \cup {Head(entries).uri} |->
                IF u = Head(entries).uri THEN Head(entries).key ELSE um[u]],
            Tail(entries))

(* ------------------------- the machine state -------------------------- *)
\* store: the quads; props, uris: the heap of property maps and URI maps, by
\* reference; cache: the PropertyCache, type key -> {properties, uris} as
\* references; uuid: the number of identifiers uuidv4() has handed out;
\* thrown: an exception is propagating.  depth: the decodeResource calls on
\* the call stack; exhausted: the exception is the engine's, for a call stack
\* that is full.
Machine(st, pr, ur, ca, uu) ==
    [store |-> st, props |-> pr, uris |-> ur, cache |-> ca, uuid |-> uu, thrown |-> FALSE,
     depth |-> 0, exhausted |-> FALSE]

Throw(m) == [m EXCEPT !.thrown = TRUE]

\* RangeError: Maximum call stack size exceeded
Exhaust(m) == [m EXCEPT !.thrown = TRUE, !.exhausted = TRUE]

NoHeap == [r \in {} |-> <<>>]
NoCache == [k \in {} |-> [properties |-> <<>>, uris |-> <<>>]]
TMP == <<"tmp">>

\* heap[ref] = val, allocating ref when new
Store(heap, ref, val) == [r \in DOMAIN heap \cup {ref} |-> IF r = ref THEN val ELSE heap[r]]

\* const x = v; F(x): v is computed once, whatever use F makes of x.
Let(v, F(_)) == CHOOSE y \in {F(x) : x \in {v}} : TRUE

(* -------------------------- property resolver ------------------------- *)
RECURSIVE getAllProperties(_, _, _)
\* A resolver that reads a missing definition as one without properties and
\* without parent (def?.extends, def?.properties ?? {}).
getAllPropertiesLenient(m, type, owner) ==
    IF type \in DOMAIN m.cache THEN [m |-> m, ref |-> m.cache[type].properties]
    ELSE IF type \notin DOMAIN defs
    THEN [m |-> [m EXCEPT !.props = Store(m.props, owner, <<>>)], ref |-> owner]
    ELSE Let(IF defs[type].extends # EmptyStr /\ defs[type].extends # IObject
             THEN getAllProperties(m, defs[type].extends, owner)
             ELSE [m |-> [m EXCEPT !.props = Store(m.props, owner, <<>>)], ref |-> owner],
             LAMBDA up :
                [m |-> [up.m EXCEPT !.props =
                            Store(up.m.props, up.ref,
                                  AssignAll(up.m.props[up.ref], defs[type].properties))],
                 ref |-> up.ref])

\* Returns [m, ref]: the machine after the call and the reference returned.
\* A map created by the call is named by owner, the reference its caller
\* keeps it under.
getAllProperties(m, type, owner) ==
    IF type \in DOMAIN m.cache THEN [m |-> m, ref |-> m.cache[type].properties]
    ELSE IF type \notin DOMAIN defs THEN [m |-> Throw(m), ref |-> owner]
    ELSE Let(IF defs[type].extends # EmptyStr /\ defs[type].extends # IObject
             THEN getAllProperties(m, defs[type].extends, owner)
             ELSE [m |-> [m EXCEPT !.props = Store(m.props, owner, <<>>)], ref |-> owner],
             LAMBDA up :
                IF up.m.thrown THEN up
                ELSE [m |-> [up.m EXCEPT !.props =
                                Store(up.m.props, up.ref,
                                      AssignAll(up.m.props[up.ref], defs[type].properties))],
                      ref |-> up.ref])

RECURSIVE getAllPropertyUris(_, _, _)
getAllPropertyUris(m, type, owner) ==
    IF type \in DOMAIN m.cache THEN [m |-> m, ref |-> m.cache[type].uris]
    ELSE IF type \notin DOMAIN defs THEN [m |-> Throw(m), ref |-> owner]
    ELSE Let(IF defs[type].extends # EmptyStr /\ defs[type].extends # IObject
             THEN getAllPropertyUris(m, defs[type].extends, owner)
             ELSE [m |-> [m EXCEPT !.uris = Store(m.uris, owner, NoUris)], ref |-> owner],
             LAMBDA up :
                IF up.m.thrown THEN up
                ELSE [m |-> [up.m EXCEPT !.uris =
                                Store(up.m.uris, up.ref,
                                      AssignAllUris(up.m.uris[up.ref], propertyUris(defs[type])))],
                      ref |-> up.ref])

isLiteral(type) == type = TString \/ type = TNumber \/ type = TBoolean \/ type = TDate

\* store.addQuad(q)
addQuad(m, q) ==
    IF \E i \in 1..Len(m.store) : m.store[i] = q THEN m
    ELSE [m EXCEPT !.store = Append(@, q)]

(* ------------------------------ builder ------------------------------- *)
URN_UUID == <<"u", "r", "n", ":", "u", "u", "i", "d", ":">>

\* baseUri + '#' + uuidv4(): [m, uri], the uuid being one never handed out.
Mint(m, baseUri) ==
    [m |-> [m EXCEPT !.uuid = @ + 1], uri |-> baseUri \o <<"#">> \o NumToStr(m.uuid + 1)]

\* dval.length; -1 stands for undefined (which is not > 1).
LengthOf(v) ==
    CASE v.t = "array" -> Len(v.a)
      [] v.t = "string" -> Len(v.s)
      [] OTHER -> -1

\* dval[i], 0-based
Index(v, i) ==
    CASE v.t = "array" -> IF i < Len(v.a) THEN v.a[i + 1] ELSE Undefined
      [] v.t = "string" -> IF i < Len(v.s) THEN SV(<<v.s[i + 1]>>) ELSE Undefined
      [] OTHER -> Undefined

\* A builder that writes every string, number and boolean as a literal,
\* whatever its key.
buildLiteralPlain(m, node, property, type, dkey, dval) ==
    IF type = TString \/ type = TNumber \/ type = TBoolean
    THEN addQuad(m, quad(namedNode(node), property, literal(dval)))
    ELSE IF type = TDate
    THEN IF dval.t # "Date" THEN Throw(m)
         ELSE IF isBeginningOfDay(dval)
         THEN addQuad(m, quad(namedNode(node), property, literal(SV(toLocaleDateString(dval)))))
         ELSE addQuad(m, quad(namedNode(node), property, literal(dval)))
    ELSE m

buildLiteral(m, node, property, type, dkey, dval) ==
    IF type = TString \/ type = TNumber \/ type = TBoolean
    THEN IF dkey = "uuid"
         THEN IF dval.t = "string"
              THEN addQuad(m, quad(namedNode(node), property, namedNode(URN_UUID \o toLowerCase(dval.s))))
              ELSE Throw(m)
         ELSE addQuad(m, quad(namedNode(node), property, literal(dval)))
    ELSE IF type = TDate
    THEN IF dval.t # "Date" THEN Throw(m)
         ELSE IF isBeginningOfDay(dval)
         THEN addQuad(m, quad(namedNode(node), property, literal(SV(toLocaleDateString(dval)))))
         ELSE addQuad(m, quad(namedNode(node), property, literal(dval)))
    ELSE m

RECURSIVE buildResource(_, _, _, _, _)
RECURSIVE buildObject(_, _, _, _)
RECURSIVE buildItems(_, _, _, _, _, _, _)
RECURSIVE buildProps(_, _, _, _, _)

\* The type key buildObject builds dval under.  A multi-type value without
\* 'type' is reported on the console and keeps the declared type.
subTypeOf(propertyDef, obj) ==
    IF propertyDef.isMultiType /\ Has(obj, "type")
    THEN Get(obj, "type").s
    ELSE propertyDef.type

\* A builder that anchors the identifiers minted below a sub-resource under
\* that sub-resource.
buildObjectUnderParent(m, propertyDef, dval, baseUri) ==
    IF dval.t \notin {"object", "array"} THEN [m |-> Throw(m), uri |-> EmptyStr]
    ELSE Let(IF dval.t = "object" THEN dval ELSE EmptyObject, LAMBDA obj :
         Let(IF Has(obj, "id") THEN [m |-> m, uri |-> Get(obj, "id").s] ELSE Mint(m, baseUri),
             LAMBDA sub :
                [m |-> buildResource(sub.m, subTypeOf(propertyDef, obj), sub.uri, obj, sub.uri),
                 uri |-> sub.uri]))

\* Returns [m, uri].
buildObject(m, propertyDef, dval, baseUri) ==
    IF dval.t \notin {"object", "array"} THEN [m |-> Throw(m), uri |-> EmptyStr]
    ELSE Let(IF dval.t = "object" THEN dval ELSE EmptyObject, LAMBDA obj :
         Let(IF Has(obj, "id") THEN [m |-> m, uri |-> Get(obj, "id").s] ELSE Mint(m, baseUri),
             LAMBDA sub :
                [m |-> buildResource(sub.m, subTypeOf(propertyDef, obj), sub.uri, obj, baseUri),
                 uri |-> sub.uri]))

\* The item edge of one list item, or the link of a single value: the
\* sub-resource is built, then the quad from node to it is added.
buildLinked(m, node, property, value, dval, baseUri) ==
    Let(buildObject(m, value, dval, baseUri), LAMBDA sub :
        IF sub.m.thrown THEN sub.m
        ELSE addQuad(sub.m, quad(namedNode(node), property, namedNode(sub.uri))))

\* A builder that counts the positions from 1.
buildItemFromOne(m, value, dkey, dval, i, itemList, baseUri) ==
    Let(Mint(m, baseUri), LAMBDA it :
    Let(addQuad(addQuad(it.m, quad(namedNode(itemList), ITEM_LIST_ELEMENT, namedNode(it.uri))),
                quad(namedNode(it.uri), POSITION, literal(NV(i + 1)))),
        LAMBDA m2 :
            IF isLiteral(value.type)
            THEN buildLiteral(m2, it.uri, ITEM, value.type, dkey, Index(dval, i))
            ELSE buildLinked(m2, it.uri, ITEM, value, Index(dval, i), baseUri)))

\* One element of an array of more than one element.
buildItem(m, value, dkey, dval, i, itemList, baseUri) ==
    Let(Mint(m, baseUri), LAMBDA it :
    Let(addQuad(addQuad(it.m, quad(namedNode(itemList), ITEM_LIST_ELEMENT, namedNode(it.uri))),
                quad(namedNode(it.uri), POSITION, literal(NV(i)))),
        LAMBDA m2 :
            IF isLiteral(value.type)
            THEN buildLiteral(m2, it.uri, ITEM, value.type, dkey, Index(dval, i))
            ELSE buildLinked(m2, it.uri, ITEM, value, Index(dval, i), baseUri)))

\* The loop over the elements, from index i on.
buildItems(m, value, dkey, dval, i, itemList, baseUri) ==
    IF m.thrown \/ i >= LengthOf(dval) THEN m
    ELSE Let(buildItem(m, value, dkey, dval, i, itemList, baseUri), LAMBDA m3 :
             buildItems(m3, value, dkey, dval, i + 1, itemList, baseUri))

\* An array of more than one element: the list node, then its items.
buildList(m, key, value, node, dval, baseUri) ==
    Let(Mint(m, baseUri), LAMBDA li :
    Let(addQuad(addQuad(li.m, quad(namedNode(li.uri), RDF_TYPE, namedNode(ITEM_LIST))),
                quad(namedNode(node), value.uri, namedNode(li.uri))),
        LAMBDA m2 : buildItems(m2, value, key, dval, 0, li.uri, baseUri)))

\* A builder that writes a property whether its key is in the object or not.
buildPropEager(m, key, value, node, obj, baseUri) ==
    Let(Get(obj, key), LAMBDA dval :
        IF value.isArray /\ dval.t = "undefined" THEN Throw(m)
        ELSE IF value.isArray /\ LengthOf(dval) > 1
        THEN buildList(m, key, value, node, dval, baseUri)
        ELSE Let(IF value.isArray THEN Index(dval, 0) ELSE dval, LAMBDA one :
                 IF isLiteral(value.type)
                 THEN buildLiteral(m, node, value.uri, value.type, key, one)
                 ELSE buildLinked(m, node, value.uri, value, one, baseUri)))

\* One property of the forEach of buildResource.
buildProp(m, key, value, node, obj, baseUri) ==
    IF value.isOptional /\ ~Has(obj, key) THEN m
    ELSE Let(Get(obj, key), LAMBDA dval :
             IF value.isArray /\ dval.t = "undefined" THEN Throw(m)
             ELSE IF value.isArray /\ LengthOf(dval) > 1
             THEN buildList(m, key, value, node, dval, baseUri)
             ELSE Let(IF value.isArray THEN Index(dval, 0) ELSE dval, LAMBDA one :
                      IF isLiteral(value.type)
                      THEN buildLiteral(m, node, value.uri, value.type, key, one)
                      ELSE buildLinked(m, node, value.uri, value, one, baseUri)))

\* Object.entries(allProps).forEach(...): entries is the list of the
\* properties as it was when the loop began.
buildProps(m, entries, node, obj, baseUri) ==
    IF m.thrown \/ entries = <<>> THEN m
    ELSE Let(buildProp(m, Head(entries).key, Head(entries).def, node, obj, baseUri), LAMBDA m1 :
             buildProps(m1, Tail(entries), node, obj, baseUri))

\* if (type in cache) ... else { allProps = getAllProperties; cache[type] =
\* { properties: allProps, uris: {} } }: [m, ref].
buildResolve(m, type) ==
    IF type \in DOMAIN m.cache THEN [m |-> m, ref |-> m.cache[type].properties]
    ELSE Let(getAllProperties(m, type, type), LAMBDA res :
             IF res.m.thrown THEN res
             ELSE [m |-> [res.m EXCEPT
                            !.uris = Store(@, type, NoUris),
                            !.cache = Store(@, type, [properties |-> res.ref, uris |-> type])],
                   ref |-> res.ref])

buildResource(m, type, node, obj, baseUri) ==
    IF m.thrown \/ type \notin DOMAIN defs THEN Throw(m)
    ELSE Let(buildResolve(addQuad(m, quad(namedNode(node), RDF_TYPE, namedNode(defs[type].uri))), type),
             LAMBDA res :
                IF res.m.thrown THEN res.m
                ELSE buildProps(res.m, res.m.props[res.ref], node, obj,
                                IF baseUri = EmptyStr THEN node ELSE baseUri))

(* ------------------------------ decoder ------------------------------- *)
\* The order of a getQuads result of n quads under the permutation perm: the
\* first MaxPerm matches (in insertion order) come in the order perm gives
\* them, the others after them.
Reorder(seq, perm) ==
    LET n == Len(seq)
        K(i) == IF i \in DOMAIN perm THEN perm[i] ELSE Cardinality(DOMAIN perm) + i
    IN  [j \in 1..n |->
            seq[CHOOSE i \in 1..n : Cardinality({i2 \in 1..n : K(i2) < K(i)}) = j - 1]]

\* store.getQuads(subject, predicate, null, null)
getQuadsSP(store, subject, predicate, perm) ==
    Let(SelectSeq(store, LAMBDA q : q.s = subject /\ q.p = predicate), LAMBDA found :
        Reorder(found, perm))

\* store.getQuads(subject, null, null, null)
getQuadsS(store, subject, perm) ==
    Let(SelectSeq(store, LAMBDA q : q.s = subject), LAMBDA found : Reorder(found, perm))

isItemList(store, term) ==
    /\ term.termType = "NamedNode"
    /\ Len(SelectSeq(store, LAMBDA q : q.s = term /\ q.p = RDF_TYPE /\ q.o = namedNode(ITEM_LIST))) = 1

decodeLiteral(type, propKey, value) ==
    IF type = TString
    THEN IF propKey = "uuid" THEN SV(toLowerCase(substring(value, 9))) ELSE SV(value)
    ELSE IF type = TDate THEN NewDate(value)
    ELSE IF type = TNumber THEN Number(value)
    ELSE IF type = TBoolean THEN BV(toLowerCase(value) = StrTrue)
    ELSE Undefined

\* a[0] < b[0] on the results of parseInt: false when either is NaN.
Less(a, b) == a.t = "number" /\ b.t = "number" /\ a.n < b.n

\* The comparator of decodeArray's sort.
Compare(a, b) == IF Less(a[1], b[1]) THEN -1 ELSE IF Less(b[1], a[1]) THEN 1 ELSE 0

RECURSIVE InsertSorted(_, _)
\* x goes after every element that does not compare greater than it.
InsertSorted(sorted, x) ==
    IF sorted = <<>> THEN <<x>>
    ELSE IF Compare(sorted[Len(sorted)], x) > 0
    THEN Append(InsertSorted(SubSeq(sorted, 1, Len(sorted) - 1), x), sorted[Len(sorted)])
    ELSE Append(sorted, x)

RECURSIVE SortPairs(_, _)
\* Array.prototype.sort with Compare: a stable sort.
SortPairs(done, todo) ==
    IF todo = <<>> THEN done
    ELSE Let(InsertSorted(done, Head(todo)), LAMBDA d : SortPairs(d, Tail(todo)))

\* The sort left out: the pairs stay in the order of enumeration.
sortSkipped(output) == output

\* output.sort((a, b) => ...)
sort(output) == SortPairs(<<>>, output)

\* One list item of the forEach of decodeArray: its [position, item] pair
\* when it carries exactly one position and one item.
listPair(store, listItem, perm) ==
    Let(getQuadsSP(store, listItem, POSITION, perm), LAMBDA pos :
    Let(getQuadsSP(store, listItem, ITEM, perm), LAMBDA item :
        IF Len(pos) = 1 /\ Len(item) = 1
        THEN << <<parseInt(pos[1].o.value), item[1].o>> >>
        ELSE <<>>))

RECURSIVE listPairs(_, _, _, _)
listPairs(store, vals, acc, perm) ==
    IF vals = <<>> THEN acc
    ELSE Let(acc \o listPair(store, Head(vals).o, perm), LAMBDA a :
             listPairs(store, Tail(vals), a, perm))

RECURSIVE decodeResource(_, _, _, _)
RECURSIVE decodeNode(_, _, _, _)
RECURSIVE decodeArray(_, _, _, _, _, _)
RECURSIVE decodeItems(_, _, _, _)
RECURSIVE decodeVals(_, _, _, _, _, _)

\* output.map((r) => this.decodeResource(store, r[1], cache)): [m, val], val
\* the sequence of the results.
decodeItems(m, pairs, acc, perm) ==
    IF m.thrown \/ pairs = <<>> THEN [m |-> m, val |-> acc]
    ELSE Let(decodeResource(m, Head(pairs)[2], EmptyStr, perm), LAMBDA r :
             decodeItems(r.m, Tail(pairs), Append(acc, r.val), perm))

\* Returns [m, val], val an array value.
decodeArray(m, nodeUri, literalVal, type, propKey, perm) ==
    Let(getQuadsSP(m.store, namedNode(nodeUri), ITEM_LIST_ELEMENT, perm), LAMBDA vals :
    Let(sort(listPairs(m.store, vals, <<>>, perm)), LAMBDA output :
        IF literalVal
        THEN [m |-> m,
              val |-> AV([i \in 1..Len(output) |-> decodeLiteral(type, propKey, output[i][2].value)])]
        ELSE Let(decodeItems(m, output, <<>>, perm), LAMBDA r : [m |-> r.m, val |-> AV(r.val)])))

\* if (prop.isArray) { push or seed } else { item[propKey] = newval }
accumulate(m, item, prop, propKey, newval) ==
    IF ~prop.isArray THEN [m |-> m, item |-> Put(item, propKey, newval)]
    ELSE IF ~Has(item, propKey) THEN [m |-> m, item |-> Put(item, propKey, AV(<<newval>>))]
    ELSE IF Get(item, propKey).t # "array" THEN [m |-> Throw(m), item |-> item]
    ELSE [m |-> m, item |-> Put(item, propKey, AV(Append(Get(item, propKey).a, newval)))]

\* The value of a quad that is not decoded as an ItemList: [m, val].
decodeOne(m, prop, propKey, object, perm) ==
    IF isLiteral(prop.type) THEN [m |-> m, val |-> decodeLiteral(prop.type, propKey, object.value)]
    ELSE IF prop.isMultiType THEN decodeResource(m, object, EmptyStr, perm)
    ELSE decodeResource(m, object, prop.type, perm)

\* A quad whose predicate is a property URI of the type: [m, item].
decodeProp(m, item, q, prop, propKey, perm) ==
    IF prop.isArray /\ isItemList(m.store, q.o)
    THEN Let(decodeArray(m, q.o.value, isLiteral(prop.type), prop.type, propKey, perm), LAMBDA r :
             [m |-> r.m, item |-> Put(item, propKey, r.val)])
    ELSE Let(decodeOne(m, prop, propKey, q.o, perm), LAMBDA r :
             IF r.m.thrown THEN [m |-> r.m, item |-> item]
             ELSE accumulate(r.m, item, prop, propKey, r.val))

\* One quad of the loop over the node's quads: [m, item].  allProps and
\* allUris are references, read from the heap as it is at this quad.
decodeVal(m, item, q, pref, uref, perm) ==
    IF q.p \notin DOMAIN m.uris[uref] THEN [m |-> m, item |-> item]
    ELSE Let(m.uris[uref][q.p], LAMBDA propKey :
             IF ~HasKey(m.props[pref], propKey) THEN [m |-> Throw(m), item |-> item]
             ELSE Let(Lookup(m.props[pref], propKey), LAMBDA prop :
                      decodeProp(m, item, q, prop, propKey, perm)))

decodeVals(m, item, vals, pref, uref, perm) ==
    IF m.thrown \/ vals = <<>> THEN [m |-> m, val |-> item]
    ELSE Let(decodeVal(m, item, Head(vals), pref, uref, perm), LAMBDA r :
             decodeVals(r.m, r.item, Tail(vals), pref, uref, perm))

\* The rdf:type quads of the node whose object is a registered type URI, in
\* the order of enumeration.
RegisteredTypes(types) == SelectSeq(types, LAMBDA q : q.o.value \in DOMAIN typeDefs)

\* if (type in cache) ... else { getAllProperties; getAllPropertyUris;
\* cache[type] = ... }: [m, pref, uref].
decodeResolve(m, type) ==
    IF type \in DOMAIN m.cache
    THEN [m |-> m, pref |-> m.cache[type].properties, uref |-> m.cache[type].uris]
    ELSE Let(getAllProperties(m, type, type), LAMBDA rp :
             IF rp.m.thrown THEN [m |-> rp.m, pref |-> rp.ref, uref |-> rp.ref]
             ELSE Let(getAllPropertyUris(rp.m, type, type), LAMBDA ru :
                      IF ru.m.thrown THEN [m |-> ru.m, pref |-> rp.ref, uref |-> ru.ref]
                      ELSE [m |-> [ru.m EXCEPT !.cache =
                                     Store(@, type, [properties |-> rp.ref, uris |-> ru.ref])],
                            pref |-> rp.ref, uref |-> ru.ref]))

\* A decoder that takes the type it is given before it looks at the node's.
discoverTypeGivenFirst(store, node, specifyType, perm) ==
    Let(RegisteredTypes(getQuadsSP(store, node, RDF_TYPE, perm)), LAMBDA found :
        IF specifyType # EmptyStr THEN specifyType
        ELSE IF found # <<>> THEN typeDefs[found[1].o.value] ELSE EmptyStr)

\* The type key decodeResource settles on: the first registered rdf:type,
\* else specifyType ('' when there is none).
discoverType(store, node, specifyType, perm) ==
    Let(RegisteredTypes(getQuadsSP(store, node, RDF_TYPE, perm)), LAMBDA found :
        IF found # <<>> THEN typeDefs[found[1].o.value] ELSE specifyType)

nodeIdOf(node) ==
    IF node.termType = "BlankNode" THEN <<"_", ":">> \o node.value ELSE node.value

\* A decoder for which a node without a usable type is an error.
decodeNodeStrict(m, node, specifyType, perm) ==
    Let(discoverType(m.store, node, specifyType, perm), LAMBDA type :
        IF type = EmptyStr THEN [m |-> Throw(m), val |-> Undefined]
        ELSE Let(decodeResolve(m, type), LAMBDA res :
                 IF res.m.thrown THEN [m |-> res.m, val |-> Undefined]
                 ELSE decodeVals(res.m,
                                 OV([k \in {"id", "type"} |->
                                        IF k = "id" THEN SV(nodeIdOf(node)) ELSE SV(type)]),
                                 getQuadsS(res.m.store, node, perm), res.pref, res.uref, perm)))

\* The body of decodeResource: [m, val].  node is a term; specifyType is ''
\* when not given.
decodeNode(m, node, specifyType, perm) ==
    Let(discoverType(m.store, node, specifyType, perm), LAMBDA type :
        IF type = EmptyStr THEN [m |-> m, val |-> EmptyObject]
        ELSE Let(decodeResolve(m, type), LAMBDA res :
                 IF res.m.thrown THEN [m |-> res.m, val |-> Undefined]
                 ELSE decodeVals(res.m,
                                 OV([k \in {"id", "type"} |->
                                        IF k = "id" THEN SV(nodeIdOf(node)) ELSE SV(type)]),
                                 getQuadsS(res.m.store, node, perm), res.pref, res.uref, perm)))

\* The call of decodeResource: one more frame on the call stack while the
\* body runs, and the engine's RangeError when the stack takes no more.
decodeResource(m, node, specifyType, perm) ==
    IF m.depth >= MaxDepth THEN [m |-> Exhaust(m), val |-> Undefined]
    ELSE Let(decodeNode([m EXCEPT !.depth = @ + 1], node, specifyType, perm), LAMBDA r :
             [m |-> [r.m EXCEPT !.depth = m.depth], val |-> r.val])

(* --------------------------- the state machine ------------------------ *)
\* store, props, uris, cache, uuid: the machine state between calls.
\* built: the buildResource call that filled the store.  foreign: how many
\* quads other writers added.  last: the last call, its arguments and what it
\* returned.  users: the methods that were handed the cache since it was new.
VARIABLES store, props, uris, cache, uuid, built, foreign, last, users

vars == <<store, props, uris, cache, uuid, built, foreign, last, users>>

Cur == Machine(store, props, uris, cache, uuid)

Init ==
    /\ store = <<>>
    /\ props = NoHeap
    /\ uris = NoHeap
    /\ cache = NoCache
    /\ uuid = 0
    /\ built = [done |-> FALSE]
    /\ foreign = 0
    /\ last = [op |-> "none"]
    /\ users = {}

\* The caller's variables after a call that left the machine as m.
Becomes(m) ==
    /\ store' = m.store
    /\ props' = [r \in DOMAIN m.props \ {TMP} |-> m.props[r]]
    /\ uris' = [r \in DOMAIN m.uris \ {TMP} |-> m.uris[r]]
    /\ cache' = m.cache
    /\ uuid' = m.uuid

\* A top-level buildResource(store, type, node, obj, cache), baseUri omitted,
\* of one of the given inputs into the store as it is.
Build(inputs) ==
    /\ ~built.done
    /\ \E in \in inputs :
        \E m \in {buildResource(Cur, in.type, in.node, in.obj, EmptyStr)} :
            /\ Becomes(m)
            /\ built' = [done |-> TRUE, type |-> in.type, node |-> in.node, obj |-> in.obj,
                         ok |-> ~m.thrown, emptyStore |-> store = <<>>,
                         freshCache |-> cache = NoCache]
            /\ last' = [op |-> "buildResource", ok |-> ~m.thrown]
    /\ users' = users \cup {"buildResource"}
    /\ UNCHANGED foreign

\* The caller starts the next call with a new, empty cache.
NewCache ==
    /\ cache # NoCache
    /\ cache' = NoCache
    /\ props' = NoHeap
    /\ uris' = NoHeap
    /\ last' = [op |-> "newCache"]
    /\ users' = {}
    /\ UNCHANGED <<store, uuid, built, foreign>>

\* A top-level decodeResource(store, nodeUri, cache, specifyType).
Decode(nodes, hints, perms) ==
    /\ \E node \in nodes, hint \in hints, perm \in perms :
        \E r \in {decodeResource(Cur, namedNode(node), hint, perm)} :
            /\ Becomes(r.m)
            /\ last' = [op |-> "decodeResource", node |-> node, blank |-> FALSE,
                        specifyType |-> hint, perm |-> perm, freshCache |-> cache = NoCache,
                        ok |-> ~r.m.thrown, exhausted |-> r.m.exhausted, val |-> r.val]
    /\ users' = users \cup {"decodeResource"}
    /\ UNCHANGED <<built, foreign>>

\* A top-level decodeResource(store, term, cache, specifyType) on a blank
\* node term.
DecodeBlank(labels, hints, perms) ==
    /\ \E label \in labels, hint \in hints, perm \in perms :
        \E r \in {decodeResource(Cur, blankNode(label), hint, perm)} :
            /\ Becomes(r.m)
            /\ last' = [op |-> "decodeResource", node |-> label, blank |-> TRUE,
                        specifyType |-> hint, perm |-> perm, freshCache |-> cache = NoCache,
                        ok |-> ~r.m.thrown, exhausted |-> r.m.exhausted, val |-> r.val]
    /\ users' = users \cup {"decodeResource"}
    /\ UNCHANGED <<built, foreign>>

\* The ItemList nodes of the store with the property that links to each.
ListLinks ==
    {i \in 1..Len(store) :
        /\ store[i].p \notin {RDF_TYPE, ITEM_LIST_ELEMENT, POSITION, ITEM}
        /\ isItemList(store, store[i].o)}

\* A direct decodeArray(store, nodeUri, literalVal, type, propKey, cache) on a
\* list node of the store, with the arguments decodeResource passes for the
\* property whose URI links the owner to the list.
DecodeArrayCall(perms) ==
    /\ \E i \in ListLinks, perm \in perms, type \in DOMAIN defs :
        \E k \in 1..Len(defs[type].properties) :
            \E e \in {defs[type].properties[k]} :
            \E r \in {decodeArray(Cur, store[i].o.value, isLiteral(e.def.type), e.def.type, e.key, perm)} :
                /\ e.def.uri = store[i].p
                /\ Becomes(r.m)
                /\ last' = [op |-> "decodeArray", owner |-> store[i].s.value,
                            node |-> store[i].o.value, key |-> e.key, perm |-> perm,
                            freshCache |-> cache = NoCache, ok |-> ~r.m.thrown, val |-> r.val]
    /\ users' = users \cup {"decodeArray"}
    /\ UNCHANGED <<built, foreign>>

\* A direct getAllProperties(type, cache): the map it returns is the
\* caller's, who stores it nowhere.
ResolveProps(types) ==
    /\ \E type \in types :
        \E r \in {getAllProperties(Cur, type, TMP)} :
            /\ Becomes(r.m)
            /\ last' = [op |-> "getAllProperties", type |-> type, cached |-> type \in DOMAIN cache,
                        ok |-> ~r.m.thrown,
                        val |-> IF r.m.thrown THEN <<>> ELSE r.m.props[r.ref]]
    /\ users' = users \cup {"getAllProperties"}
    /\ UNCHANGED <<built, foreign>>

\* A direct getAllPropertyUris(type, cache).
ResolveUris(types) ==
    /\ \E type \in types :
        \E r \in {getAllPropertyUris(Cur, type, TMP)} :
            /\ Becomes(r.m)
            /\ last' = [op |-> "getAllPropertyUris", type |-> type, cached |-> type \in DOMAIN cache,
                        ok |-> ~r.m.thrown,
                        val |-> IF r.m.thrown THEN NoUris ELSE r.m.uris[r.ref]]
    /\ users' = users \cup {"getAllPropertyUris"}
    /\ UNCHANGED <<built, foreign>>

\* Another writer of the store adds one quad.
AddForeign(quads) ==
    /\ foreign < MaxForeign
    /\ \E q \in quads :
        /\ \A i \in 1..Len(store) : store[i] # q
        /\ store' = Append(store, q)
    /\ foreign' = foreign + 1
    /\ last' = [op |-> "addQuad"]
    /\ UNCHANGED <<props, uris, cache, uuid, built, users>>

RECURSIVE AddAll(_, _)
\* The store after addQuad of each quad of the sequence, in order.
AddAll(st, quads) ==
    IF quads = <<>> THEN st
    ELSE AddAll(IF \E i \in 1..Len(st) : st[i] = Head(quads) THEN st ELSE Append(st, Head(quads)),
                Tail(quads))

\* Another writer of the store adds the quads of one sub-graph.
AddGraph(graphs) ==
    /\ foreign < MaxForeign
    /\ \E g \in graphs :
        /\ \E k \in 1..Len(g) : \A i \in 1..Len(store) : store[i] # g[k]
        /\ store' = AddAll(store, g)
    /\ foreign' = foreign + 1
    /\ last' = [op |-> "addQuad"]
    /\ UNCHANGED <<props, uris, cache, uuid, built, users>>

(* ------------------------------- inputs ------------------------------- *)
Str1(c) == SV(<<c>>)
Alphabet == <<"a", "b", "c", "d", "e", "f">>
ROOT == <<"r">>

\* [a, b, c, ...] of length n
TagsOf(n) == AV([i \in 1..n |-> Str1(Alphabet[i])])

\* The i-th sub-resource value: an odd one carries an id.
Leaf(i) ==
    IF i % 2 = 1
    THEN OV([id |-> SV(<<"x">> \o NumToStr(i)), label |-> Str1(Alphabet[i])])
    ELSE OV([label |-> Str1(Alphabet[i])])

ItemsOf(n) == AV([i \in 1..n |-> Leaf(i)])

\* A Box with its required title and one more property.
BoxWith(key, val) == OV([k \in {"title", key} |-> IF k = key THEN val ELSE Str1("a")])

Input(type, obj) == [type |-> type, node |-> ROOT, obj |-> obj]

KidObj == OV([type |-> SV(TKid), kind |-> NV(7), age |-> NV(3), label |-> Str1("b")])
TotObj == OV([type |-> SV(TTot), kind |-> TagsOf(2), label |-> Str1("b")])
Tot1Obj == OV([type |-> SV(TTot), kind |-> TagsOf(1)])
BaseObj == OV([type |-> SV(TBase), kind |-> Str1("a"), id |-> SV(<<"x">>)])

\* Objects that conform to the schema: every literal kind, a nested single
\* sub-resource, arrays of literals and of sub-resources of length 0..MaxLen,
\* multi-type values that name their type, and the subtypes at top level.
ConformingInputs ==
    {Input(TBox, BoxWith("n", NV(k))) : k \in {0, 12}}
      \cup {Input(TBox, BoxWith("ok", BV(b))) : b \in BOOLEAN}
      \cup {Input(TBox, BoxWith("at", DV(3, sec))) : sec \in {0, 5}}
      \cup {Input(TBox, BoxWith("tags", TagsOf(n))) : n \in 0..MaxLen}
      \cup {Input(TBox, BoxWith("tags", AV(<<Str1("b"), Str1("a")>>))),
            Input(TBox, BoxWith("tags", AV(<<Str1("a"), Str1("a")>>)))}
      \cup {Input(TBox, BoxWith("item", Leaf(i))) : i \in 1..2}
      \cup {Input(TBox, BoxWith("items", ItemsOf(n))) : n \in 0..MaxLen}
      \cup {Input(TBox, BoxWith("any", v)) : v \in {KidObj, TotObj, Tot1Obj, BaseObj}}
      \cup {Input(TKid, KidObj), Input(TTot, TotObj), Input(TBase, BaseObj)}

\* Inputs with a schema error: a multi-type value without 'type' (at depth
\* 1 and 2), a property declared with an unregistered type key (at depth 1 and
\* 2), an unregistered top-level type key, a type that extends one.
NoTypeObj == OV([label |-> Str1("a")])
ErrorInputs ==
    {Input(TBox, BoxWith("any", NoTypeObj)),
     Input(TBox, BoxWith("any", OV([type |-> SV(TBox), title |-> Str1("b"), any |-> NoTypeObj]))),
     Input(TBox, BoxWith("bad", EmptyObject)),
     Input(TBox, BoxWith("any", OV([type |-> SV(TBox), title |-> Str1("b"), bad |-> EmptyObject]))),
     Input(TGhost, EmptyObject),
     Input(TOrphan, NoTypeObj)}

\* Objects with a uuid, in upper, mixed and lower case.
UuidInputs ==
    {Input(TBox, BoxWith("uuid", SV(u))) :
        u \in {<<"A", "B", "-", "1">>, <<"a", "F", "-", "2">>, <<"e", "f", "-", "3">>}}

\* Objects with sub-resources at depth 2: below a sub-resource without id and
\* below one with an id.
NestedInputs ==
    {Input(TBox, BoxWith("any", OV([type |-> SV(TBox), title |-> Str1("b"), items |-> ItemsOf(2)]))),
     Input(TBox, BoxWith("any", OV([type |-> SV(TBox), id |-> SV(<<"y">>), title |-> Str1("b"),
                                    item |-> Leaf(2)])))}

Perms == Permutations(1..MaxPerm)

(* ------------- one build, then decodes, each with its own cache -------- *)
Next ==
    \/ Build(ConformingInputs \cup ErrorInputs \cup UuidInputs \cup NestedInputs)
    \/ NewCache
    \/ Decode({ROOT}, {EmptyStr}, Perms)
    \/ DecodeArrayCall(Perms)

Spec == Init /\ [][Next]_vars

(* -------- a batch of calls that share one carried-over cache ---------- *)
IdPerm == [i \in 1..MaxPerm |-> i]
ABSENT == <<"z">>

\* The stores of the batch: a Base at the root; a Box with a Base and a Kid
\* in it; a Tot at the root.
BatchInputs ==
    {Input(TBase, OV([kind |-> Str1("a"), label |-> Str1("b")])),
     Input(TBox, OV([title |-> Str1("a"), item |-> Leaf(1), any |-> KidObj])),
     Input(TTot, Tot1Obj)}

TypeKeys == DOMAIN defs \cup {TGhost}

NextBatch ==
    \/ Build(BatchInputs)
    \/ NewCache
    \/ Decode({ROOT, ABSENT}, {EmptyStr, TBase, TKid, TTot}, {IdPerm})
    \/ ResolveProps(TypeKeys)
    \/ ResolveUris(TypeKeys)

SpecBatch == Init /\ [][NextBatch]_vars

(* ---------- a store that other writers add quads to as well ---------- *)
Reversed == [i \in 1..MaxPerm |-> MaxPerm + 1 - i]

ALIEN == <<"u">>
OTHER_NODE == <<"n">>
\* The list node the build mints for the array of the root object.
ROOT_LIST == ROOT \o <<"#", "1">>

\* What the other writers add: a node of an unregistered type and a link to
\* it from the root under the multi-type property; direct values of the array
\* property tags on the root and on another node, and a link from that node
\* to the root's list.
ForeignQuads ==
    {quad(namedNode(ALIEN), RDF_TYPE, namedNode(<<"T:Alien">>)),
     quad(namedNode(ROOT), <<"p:any">>, namedNode(ALIEN)),
     quad(namedNode(ROOT), <<"p:tags">>, literal(Str1("c"))),
     quad(namedNode(OTHER_NODE), <<"p:tags">>, literal(Str1("c"))),
     quad(namedNode(OTHER_NODE), <<"p:tags">>, namedNode(ROOT_LIST))}

ForeignInputs ==
    {Input(TBox, BoxWith("tags", TagsOf(2))),
     Input(TBox, BoxWith("tags", TagsOf(1))),
     Input(TBox, BoxWith("item", Leaf(1)))}

NextForeign ==
    \/ Build(ForeignInputs)
    \/ AddForeign(ForeignQuads)
    \/ NewCache
    \/ Decode({ROOT, ALIEN}, {EmptyStr}, {IdPerm, Reversed})
    \/ Decode({OTHER_NODE}, {TBox}, {IdPerm, Reversed})

SpecForeign == Init /\ [][NextForeign]_vars

(* ------------- nodes that other writers gave their types ------------- *)
BLANK == <<"b">>

\* A named node and a blank node, each with registered and unregistered
\* rdf:types.
TypeQuads ==
    {quad(namedNode(OTHER_NODE), RDF_TYPE, namedNode(<<"T:Alien">>)),
     quad(namedNode(OTHER_NODE), RDF_TYPE, namedNode(<<"T:Kid">>)),
     quad(namedNode(OTHER_NODE), RDF_TYPE, namedNode(<<"T:Base">>)),
     quad(blankNode(BLANK), RDF_TYPE, namedNode(<<"T:Alien">>)),
     quad(blankNode(BLANK), RDF_TYPE, namedNode(<<"T:Tot">>)),
     quad(blankNode(BLANK), <<"p:label">>, literal(Str1("a")))}

NextTypes ==
    \/ AddForeign(TypeQuads)
    \/ Decode({OTHER_NODE}, {EmptyStr, TBase, TTot}, {IdPerm, Reversed})
    \/ DecodeBlank({BLANK}, {EmptyStr, TBase, TTot}, {IdPerm, Reversed})

SpecTypes == Init /\ [][NextTypes]_vars

(* ------- one sub-resource, linked directly and through a list -------- *)
UNTYPED == <<"w">>
LIST == <<"l">>
LIST_ITEM == <<"q">>

\* The sub-graphs other writers add: a sub-resource without rdf:type; a link
\* to it from the root under the array property items as a direct quad, and
\* as the one element of an ItemList; a link under the single-valued item and
\* under the multi-type any.
ShapeGraphs ==
    {<<quad(namedNode(UNTYPED), <<"p:label">>, literal(Str1("a")))>>,
     <<quad(namedNode(ROOT), <<"p:items">>, namedNode(UNTYPED))>>,
     <<quad(namedNode(LIST), RDF_TYPE, namedNode(ITEM_LIST)),
       quad(namedNode(ROOT), <<"p:items">>, namedNode(LIST)),
       quad(namedNode(LIST), ITEM_LIST_ELEMENT, namedNode(LIST_ITEM)),
       quad(namedNode(LIST_ITEM), POSITION, literal(NV(0))),
       quad(namedNode(LIST_ITEM), ITEM, namedNode(UNTYPED))>>,
     <<quad(namedNode(ROOT), <<"p:item">>, namedNode(UNTYPED))>>,
     <<quad(namedNode(ROOT), <<"p:any">>, namedNode(UNTYPED))>>}

NextShapes ==
    \/ AddGraph(ShapeGraphs)
    \/ NewCache
    \/ Decode({ROOT, UNTYPED}, {TBox, TBase}, {IdPerm, Reversed})

SpecShapes == Init /\ [][NextShapes]_vars

(* ------------- sub-resources that refer to one another ---------------- *)
\* Objects whose sub-resources carry the id of a node built before them: the
\* root in itself; the root in a sub-resource of the root; one sub-resource
\* twice, with no way back from it.
CycleInputs ==
    {Input(TBox, BoxWith("any", OV([type |-> SV(TBox), id |-> SV(ROOT), title |-> Str1("b")]))),
     Input(TBox, BoxWith("any", OV([type |-> SV(TBox), id |-> SV(<<"y">>), title |-> Str1("b"),
                                    any |-> OV([type |-> SV(TBox), id |-> SV(ROOT),
                                                title |-> Str1("c")])]))),
     Input(TBox, OV([title |-> Str1("a"), item |-> Leaf(1), items |-> AV(<<Leaf(1), Leaf(3)>>)]))}

NextCycle ==
    \/ Build(CycleInputs)
    \/ NewCache
    \/ Decode({ROOT, <<"y">>, <<"x", "1">>}, {EmptyStr, TBox}, {IdPerm, Reversed})

SpecCycle == Init /\ [][NextCycle]_vars

(* ------------------------------ round trip ---------------------------- *)
RECURSIVE Erase(_)
\* The value without the id and type fields of its objects (the decoder adds
\* both to every object it returns).
Erase(v) ==
    CASE v.t = "object" -> OV([k \in DOMAIN v.o \ {"id", "type"} |-> Erase(v.o[k])])
      [] v.t = "array" -> AV([i \in 1..Len(v.a) |-> Erase(v.a[i])])
      [] OTHER -> v

\* The last call decoded the root node of the build, with a cache of its
\* own, and the build was of a conforming object into an empty store with a
\* cache of its own.
DecodedTheBuild ==
    /\ built.done
    /\ built.emptyStore
    /\ built.freshCache
    /\ Input(built.type, built.obj) \in ConformingInputs
    /\ last.op = "decodeResource"
    /\ last.node = built.node
    /\ last.specifyType = EmptyStr
    /\ last.freshCache

\* The decoded object is the built one: same id, same type, same properties.
RoundTrips ==
    /\ built.ok
    /\ last.ok
    /\ last.val.t = "object"
    /\ Get(last.val, "id") = SV(built.node)
    /\ Get(last.val, "type") = SV(built.type)
    /\ Erase(last.val) = Erase(built.obj)

\* Some array of the object, at any depth, is empty.
RECURSIVE HasEmptyArray(_)
HasEmptyArray(v) ==
    CASE v.t = "object" -> \E k \in DOMAIN v.o : HasEmptyArray(v.o[k])
      [] v.t = "array" -> Len(v.a) = 0 \/ \E i \in 1..Len(v.a) : HasEmptyArray(v.a[i])
      [] OTHER -> FALSE

\* C1: for every object that conforms to the schema, building it into an
\* empty store and decoding the root node yields the object again, up to key
\* order, arrays of length 0 included.
C1_RoundTrip == DecodedTheBuild => RoundTrips

\* The round trip does hold for the objects without an empty array.
RoundTripNonEmpty == (DecodedTheBuild /\ ~HasEmptyArray(built.obj)) => RoundTrips

(* ------------------------------ list order ---------------------------- *)
\* The object of the build that the node owner was built from: the root
\* object, or the value of its property any.
BuiltObjectAt(owner) == IF owner = built.node THEN built.obj ELSE Get(built.obj, "any")

\* The last call was decodeArray on the list node that the build made for
\* an array of two or more elements.
DecodedBuiltList ==
    /\ last.op = "decodeArray"
    /\ built.done
    /\ built.ok
    /\ LengthOf(Get(BuiltObjectAt(last.owner), last.key)) >= 2

\* The decoded element is the built one.  A literal is equal to it.  A
\* sub-resource has its id, and its label when the decode found one; under a
\* cache of the call's own it has all its properties.
ElementMatches(dec, orig, freshCache) ==
    IF orig.t # "object" THEN dec = orig
    ELSE /\ dec.t = "object"
         /\ Has(orig, "id") => Get(dec, "id") = Get(orig, "id")
         /\ Has(dec, "label") => Get(dec, "label") = Get(orig, "label")
         /\ freshCache => Erase(dec) = Erase(orig)

\* C2: decodeArray on the list of a built array [e0, ..., e(n-1)], n >= 2,
\* returns the n elements in index order, whatever order the store enumerates
\* the list's quads in.
C2_ListOrder ==
    DecodedBuiltList =>
        LET orig == Get(BuiltObjectAt(last.owner), last.key)
        IN  /\ last.ok
            /\ last.val.t = "array"
            /\ Len(last.val.a) = Len(orig.a)
            /\ \A i \in 1..Len(orig.a) : ElementMatches(last.val.a[i], orig.a[i], last.freshCache)

\* An array of three sub-resources or more was decoded from a store that
\* enumerated its first three list items in reverse.
C2_Witness ==
    /\ DecodedBuiltList
    /\ last.key = "items"
    /\ Len(last.val.a) >= 3
    /\ last.perm[1] > last.perm[2]
    /\ last.perm[2] > last.perm[3]

(* ------------------------- build-time schema errors ------------------- *)
RECURSIVE UntypedMulti(_)
\* The build of the object reaches a value of the multi-type property any
\* that has no type field (the value itself, or one nested in a typed one).
UntypedMulti(obj) ==
    /\ Has(obj, "any")
    /\ \/ ~Has(Get(obj, "any"), "type")
       \/ UntypedMulti(Get(obj, "any"))

\* The type key has no definition, or extends a type key that has none.
Unregistered(type) ==
    \/ type \notin DOMAIN defs
    \/ /\ defs[type].extends \notin {EmptyStr, IObject}
       /\ defs[type].extends \notin DOMAIN defs

RECURSIVE UnknownTypeKey(_, _)
\* The build of the object under the type key reaches an unregistered type
\* key: its own, that of its property bad, or one in the value of any.
UnknownTypeKey(type, obj) ==
    \/ Unregistered(type)
    \/ Has(obj, "bad")
    \/ /\ Has(obj, "any")
       /\ Has(Get(obj, "any"), "type")
       /\ UnknownTypeKey(Get(Get(obj, "any"), "type").s, Get(obj, "any"))

\* C4: a build that reaches a multi-type value without a type field fails;
\* it does not build the value under the property's declared type.
C4_MultiTypeNeedsType == (built.done /\ UntypedMulti(built.obj)) => ~built.ok

\* C7: a build whose object holds a schema error at any depth (an unknown
\* type key, a multi-type value without type) does not return normally.
C7_SchemaErrorAborts ==
    (built.done /\ (UntypedMulti(built.obj) \/ UnknownTypeKey(built.type, built.obj)))
        => ~built.ok

\* The half of C7 that the code keeps: an unknown type key, at any depth,
\* makes the top-level call throw.
UnknownTypeKeyAborts == (built.done /\ UnknownTypeKey(built.type, built.obj)) => ~built.ok


(* ---------------------- one cache carried across calls ---------------- *)
\* C3: once a type key has an entry in the cache, the property map stored
\* for it is not changed by any later resolve, build or decode that is handed
\* the same cache.
C3_MemoStable ==
    [][\A T \in DOMAIN cache \cap DOMAIN cache' :
            props'[cache'[T].properties] = props[cache[T].properties]]_vars

\* The keys the entries declare.
KeysOf(entries) == {entries[i].key : i \in 1..Len(entries)}

\* The map holds the entry: the key with that definition.
Holds(pm, e) == HasKey(pm, e.key) /\ Lookup(pm, e.key) = e.def

\* The URI map resolves the entry's URI to its key.
Resolves(um, e) == e.def.uri \in DOMAIN um /\ um[e.def.uri] = e.key

\* The entries of the parent that the type does not redeclare.
Inherited(T) ==
    LET up == defs[defs[T].extends].properties
    IN  {up[i] : i \in {j \in 1..Len(up) : up[j].key \notin KeysOf(defs[T].properties)}}

Own(T) == {defs[T].properties[i] : i \in 1..Len(defs[T].properties)}

\* The registered types that extend a registered parent.
Children == {T \in DOMAIN defs : defs[T].extends \in DOMAIN defs}

\* C5: for a type that extends a non-root parent, the property map cached
\* for it holds the type's own definition for every key the type declares and
\* the parent's for every key it does not redeclare, and the URI map that
\* decode cached for it resolves the URI of each of them to its key.
C5_InheritanceOverlay ==
    \A T \in Children \cap DOMAIN cache :
        /\ \A e \in Own(T) \cup Inherited(T) : Holds(props[cache[T].properties], e)
        /\ "buildResource" \notin users =>
                \A e \in Own(T) \cup Inherited(T) : Resolves(uris[cache[T].uris], e)

\* The overlay is right in the map a resolver call returns when the cache
\* holds no entry yet.
OverlayFromEmptyCache ==
    (last.op = "getAllProperties" /\ last.type \in Children /\ last.ok /\ users = {"getAllProperties"}
        /\ DOMAIN cache = {})
        => \A e \in Own(last.type) \cup Inherited(last.type) : Holds(last.val, e)

\* The last decodeResource call, made with a cache of its own.
DecodedAlone ==
    decodeResource(Machine(store, NoHeap, NoHeap, NoCache, uuid),
                   namedNode(last.node), last.specifyType, last.perm)

\* C6: in a sequence of decodeResource calls that share one carried-over
\* cache, each call returns what it returns with a cache of its own.
C6_CacheTransparent ==
    (last.op = "decodeResource" /\ users = {"decodeResource"}) =>
        \E alone \in {DecodedAlone} :
            /\ last.ok = ~alone.m.thrown
            /\ last.ok => last.val = alone.val

\* C10: getAllProperties and getAllPropertyUris, called with a type key that
\* has no cache entry and is not registered, or extends a type key that is
\* not, raise an error; they return no map.
C10_UnknownTypeFatal ==
    (last.op \in {"getAllProperties", "getAllPropertyUris"}
        /\ Unregistered(last.type) /\ ~last.cached) => ~last.ok

\* getAllProperties was called for an unregistered type key under a cache
\* that holds entries, and raised.
C10_Witness ==
    /\ last.op = "getAllProperties"
    /\ last.type = TGhost
    /\ ~last.cached
    /\ cache # NoCache
    /\ ~last.ok

(* ------------------------ nodes of unknown type ----------------------- *)
\* The store holds the quad.
InStore(q) == \E i \in 1..Len(store) : store[i] = q

\* None of the node's rdf:type quads names a registered type URI.
NoRegisteredType(node) ==
    \A i \in 1..Len(store) :
        (store[i].s = namedNode(node) /\ store[i].p = RDF_TYPE)
            => store[i].o.value \notin DOMAIN typeDefs

\* The last call decoded the root of the build, with a cache of its own,
\* from a store where the root's multi-type property links to a node of
\* unknown type.
DecodedParentOfUnknown ==
    /\ last.op = "decodeResource"
    /\ last.node = ROOT
    /\ last.freshCache
    /\ built.done
    /\ built.ok
    /\ InStore(quad(namedNode(ROOT), <<"p:any">>, namedNode(ALIEN)))
    /\ NoRegisteredType(ALIEN)

\* No quad of the other writers adds a value to the root's key.
Untouched(k) ==
    k = "tags" => ~InStore(quad(namedNode(ROOT), <<"p:tags">>, literal(Str1("c"))))

\* C8: decodeResource on a node without a registered rdf:type, called with
\* no expected type, returns the empty object and raises nothing; when the
\* node is reached as a sub-resource, the enclosing decode returns normally,
\* with the empty object for it and every other property decoded in full.
C8_UnknownTypeNodeLocal ==
    /\ (last.op = "decodeResource" /\ last.specifyType = EmptyStr /\ NoRegisteredType(last.node))
            => (last.ok /\ last.val = EmptyObject)
    /\ DecodedParentOfUnknown =>
            /\ last.ok
            /\ Has(last.val, "any")
            /\ Get(last.val, "any") = EmptyObject
            /\ \A k \in DOMAIN built.obj.o :
                    /\ Has(last.val, k)
                    /\ Untouched(k) => Get(Erase(last.val), k) = Get(Erase(built.obj), k)

\* The root of a build with a sub-resource was decoded, the store enumerating
\* in reverse, and its multi-type property linked to a node whose rdf:type is
\* not registered.
C8_Witness ==
    /\ DecodedParentOfUnknown
    /\ InStore(quad(namedNode(ALIEN), RDF_TYPE, namedNode(<<"T:Alien">>)))
    /\ Has(built.obj, "item")
    /\ last.perm = Reversed
    /\ last.ok
    /\ Get(last.val, "item") = OV([id |-> SV(<<"x", "1">>), type |-> SV(TBase), label |-> Str1("a")])

(* --------------------------- array accumulation ----------------------- *)
\* The values of the list: the schema:item objects of its elements.
ListValues(list) ==
    {store[j].o.value : j \in {j \in 1..Len(store) :
        /\ store[j].p = ITEM
        /\ InStore(quad(list, ITEM_LIST_ELEMENT, store[j].s))}}

\* Every value the node's quads of the array property tags carry, directly
\* or through an ItemList node.
Carried(node) ==
    UNION {IF isItemList(store, store[i].o) THEN ListValues(store[i].o) ELSE {store[i].o.value} :
            i \in {i \in 1..Len(store) : store[i].s = namedNode(node) /\ store[i].p = <<"p:tags">>}}

\* The last call decoded, with a cache of its own, a Box whose quads carry
\* values of tags.
DecodedTags ==
    /\ last.op = "decodeResource"
    /\ last.freshCache
    /\ last.ok
    /\ Has(last.val, "type")
    /\ Get(last.val, "type") = SV(TBox)
    /\ Carried(last.node) # {}

\* C9: the decoded array of a node that carries several quads of one array
\* property, as direct values, as an ItemList or as both, holds every value
\* those quads carry, in whatever order the store enumerates them.
C9_NoValueLost ==
    DecodedTags =>
        /\ Has(last.val, "tags")
        /\ Get(last.val, "tags").t = "array"
        /\ \A v \in Carried(last.node) :
                \E i \in 1..Len(Get(last.val, "tags").a) : Get(last.val, "tags").a[i] = SV(v)

\* No quad of the node for tags links to an ItemList.
DirectOnly(node) ==
    \A i \in 1..Len(store) :
        (store[i].s = namedNode(node) /\ store[i].p = <<"p:tags">>) => ~isItemList(store, store[i].o)

\* Direct values alone do accumulate: none is lost.
AccumulatesDirect ==
    (DecodedTags /\ DirectOnly(last.node)) =>
        /\ Has(last.val, "tags")
        /\ Get(last.val, "tags").t = "array"
        /\ Len(Get(last.val, "tags").a) = Cardinality(Carried(last.node))
        /\ \A v \in Carried(last.node) :
                \E i \in 1..Len(Get(last.val, "tags").a) : Get(last.val, "tags").a[i] = SV(v)

(* --------------------------------- uuid ------------------------------- *)
\* The build was of a Box with the string u under the key uuid.
BuiltUuid ==
    /\ built.done
    /\ built.type = TBox
    /\ Has(built.obj, "uuid")
    /\ Get(built.obj, "uuid").t = "string"

\* C11: a string u under the key uuid is built as the named node
\* 'urn:uuid:' + lowercase(u) and not as a literal, and the decode of the
\* built node returns lowercase(u) without the prefix: u itself when u is in
\* lower case.
C11_UuidLowerCased ==
    BuiltUuid =>
        LET u == Get(built.obj, "uuid").s
        IN  /\ built.ok
            /\ InStore(quad(namedNode(built.node), <<"p:uuid">>,
                            namedNode(<<"u", "r", "n", ":", "u", "u", "i", "d", ":">> \o toLowerCase(u))))
            /\ \A i \in 1..Len(store) :
                    (store[i].s = namedNode(built.node) /\ store[i].p = <<"p:uuid">>)
                        => store[i].o.termType = "NamedNode"
            /\ (last.op = "decodeResource" /\ last.node = built.node /\ last.freshCache) =>
                    /\ last.ok
                    /\ Has(last.val, "uuid")
                    /\ Get(last.val, "uuid") = SV(toLowerCase(u))
                    /\ (\A j \in 1..Len(u) : u[j] \notin {"A", "B", "C", "D", "E", "F"})
                            => Get(last.val, "uuid") = SV(u)

\* The uuid 'AB-1' was built and decoded as 'ab-1'.
C11_Witness ==
    /\ BuiltUuid
    /\ Get(built.obj, "uuid") = SV(<<"A", "B", "-", "1">>)
    /\ last.op = "decodeResource"
    /\ last.freshCache
    /\ last.ok
    /\ Get(last.val, "uuid") = SV(<<"a", "b", "-", "1">>)

(* ------------------------ absent optional properties ------------------ *)
\* The properties of the type, its own and those it inherits.
EffectiveEntries(T) == Own(T) \cup (IF T \in Children THEN Inherited(T) ELSE {})

\* The node has no quad with the predicate.
NoQuad(node, uri) ==
    \A i \in 1..Len(store) : ~(store[i].s = namedNode(node) /\ store[i].p = uri)

\* C12: for an optional property whose key the object lacks, the build adds
\* no quad with the property's URI to the node; and the object that
\* decodeResource returns has no key for a property the node has no quad of.
C12_AbsentOptionalOmitted ==
    /\ (built.done /\ built.type \in DOMAIN defs) =>
            \A e \in EffectiveEntries(built.type) :
                (e.def.isOptional /\ ~Has(built.obj, e.key)) => NoQuad(built.node, e.def.uri)
    /\ (last.op = "decodeResource" /\ last.ok /\ Has(last.val, "type")) =>
            \A e \in EffectiveEntries(Get(last.val, "type").s) :
                NoQuad(last.node, e.def.uri) => ~Has(last.val, e.key)

\* A Box with a title and a number was built and decoded: the store has no
\* quad for its tags, the decoded object has the number and no tags.
C12_Witness ==
    /\ built.done
    /\ built.ok
    /\ built.obj = BoxWith("n", NV(12))
    /\ NoQuad(built.node, <<"p:tags">>)
    /\ last.op = "decodeResource"
    /\ last.freshCache
    /\ last.ok
    /\ Has(last.val, "n")
    /\ ~Has(last.val, "tags")

(* ------------------------- what a cache entry holds ------------------- *)
\* C13: whatever buildResource and decodeResource calls have shared the
\* cache, each of its entries holds the full property map of its type and a
\* URI map that resolves the URI of every property of the type; so a
\* decodeResource that finds its type in the cache returns what it returns
\* with an empty cache.
C13_CacheEntriesComplete ==
    users \subseteq {"buildResource", "decodeResource"} =>
        /\ \A T \in DOMAIN cache :
                \A e \in EffectiveEntries(T) :
                    /\ Holds(props[cache[T].properties], e)
                    /\ Resolves(uris[cache[T].uris], e)
        /\ last.op = "decodeResource" =>
                \E alone \in {DecodedAlone} :
                    /\ last.ok = ~alone.m.thrown
                    /\ last.ok => last.val = alone.val

\* The part that holds: the property map of an entry made by a build is full.
BuildCachesFullProperties ==
    users = {"buildResource"} =>
        \A T \in DOMAIN cache : \A e \in EffectiveEntries(T) : Holds(props[cache[T].properties], e)

(* --------------------------- the lists of a build --------------------- *)
\* The objects of the subject's quads with the predicate.
ObjectsOf(subject, uri) ==
    {store[i].o : i \in {j \in 1..Len(store) : store[j].s = subject /\ store[j].p = uri}}

\* The identifier is rootNodeUri + '#' + the k-th uuid, for a k handed out.
MintedUnder(root, value) == \E k \in 1..uuid : value = root \o <<"#">> \o NumToStr(k)

\* The item edge points to the element: to the literal; to the sub-resource
\* by its id when it has one, and by a minted identifier of a node of the
\* declared type otherwise.
PointsTo(o, elem, def) ==
    IF isLiteral(def.type) THEN o = literal(elem)
    ELSE IF Has(elem, "id") THEN o = namedNode(Get(elem, "id").s)
    ELSE /\ o.termType = "NamedNode"
         /\ MintedUnder(built.node, o.value)
         /\ InStore(quad(o, RDF_TYPE, namedNode(defs[def.type].uri)))

\* The node is the list of the array: typed ItemList, with one list item per
\* element, and for each index one list item at that position whose one item
\* edge points to the element of that index.
IsListOf(list, arr, def) ==
    /\ isItemList(store, list)
    /\ Cardinality(ObjectsOf(list, ITEM_LIST_ELEMENT)) = Len(arr)
    /\ \A it \in ObjectsOf(list, ITEM_LIST_ELEMENT) :
            /\ Cardinality(ObjectsOf(it, POSITION)) = 1
            /\ Cardinality(ObjectsOf(it, ITEM)) = 1
    /\ \A idx \in 0..(Len(arr) - 1) :
            /\ Cardinality({it \in ObjectsOf(list, ITEM_LIST_ELEMENT) :
                                literal(NV(idx)) \in ObjectsOf(it, POSITION)}) = 1
            /\ \A it \in ObjectsOf(list, ITEM_LIST_ELEMENT) :
                    literal(NV(idx)) \in ObjectsOf(it, POSITION) =>
                        \A o \in ObjectsOf(it, ITEM) : PointsTo(o, arr[idx + 1], def)

\* The array properties of the built object that hold more than one element.
LongArrays ==
    {e \in EffectiveEntries(built.type) :
        /\ e.def.isArray
        /\ Has(built.obj, e.key)
        /\ LengthOf(Get(built.obj, e.key)) > 1}

\* C14: for an array property of n > 1 elements the build adds one list node
\* typed ItemList and linked from the owner by the property's URI, n list
\* items linked from it by itemListElement, and for each index i < n one list
\* item with the position i whose one item edge points to the element i.
C14_ItemListEncoding ==
    (built.done /\ built.ok /\ built.type \in DOMAIN defs) =>
        \A e \in LongArrays :
            /\ Cardinality(ObjectsOf(namedNode(built.node), e.def.uri)) = 1
            /\ \A list \in ObjectsOf(namedNode(built.node), e.def.uri) :
                    IsListOf(list, Get(built.obj, e.key).a, e.def)

\* Built: an array of MaxLen sub-resources, with and without an id.
C14_Witness ==
    /\ built.done
    /\ built.ok
    /\ built.obj = BoxWith("items", ItemsOf(MaxLen))
    /\ Cardinality(ObjectsOf(namedNode(ROOT_LIST), ITEM_LIST_ELEMENT)) = MaxLen

(* ----------------------- the identifiers of a build ------------------- *)
RECURSIVE IdsBelow(_)
\* The ids of the sub-resource values of the value, at any depth.
IdsBelow(v) ==
    CASE v.t = "object" ->
            UNION {IdsBelow(v.o[k]) \cup
                   (IF v.o[k].t = "object" /\ Has(v.o[k], "id") THEN {Get(v.o[k], "id").s} ELSE {}) :
                   k \in DOMAIN v.o}
      [] v.t = "array" ->
            UNION {IdsBelow(v.a[i]) \cup
                   (IF v.a[i].t = "object" /\ Has(v.a[i], "id") THEN {Get(v.a[i], "id").s} ELSE {}) :
                   i \in 1..Len(v.a)}
      [] OTHER -> {}

\* The nodes of the store: the subjects of its quads.
Subjects == {store[i].s : i \in 1..Len(store)}

\* C15: in a top-level build with baseUri omitted every sub-resource value
\* with an id is the node of that URI and is linked by it; every other node
\* the build creates, at any depth, is named rootNodeUri + '#' + a uuid handed
\* out in the call; every uuid handed out names one node, a resource, a list
\* or a list item.
C15_SubResourceIdentity ==
    (built.done /\ built.ok) =>
        /\ \A id \in IdsBelow(built.obj) :
                /\ namedNode(id) \in Subjects
                /\ \E i \in 1..Len(store) : store[i].o = namedNode(id)
        /\ \A n \in Subjects :
                \/ n = namedNode(built.node)
                \/ n.value \in IdsBelow(built.obj)
                \/ MintedUnder(built.node, n.value)
        /\ \A k \in 1..uuid :
            \E n \in {namedNode(built.node \o <<"#">> \o NumToStr(k))} :
                /\ n \in Subjects
                /\ n.value \notin IdsBelow(built.obj)
                /\ Cardinality(ObjectsOf(n, RDF_TYPE)) + Cardinality(ObjectsOf(n, POSITION)) = 1

\* Built: a sub-resource with the id 'y' that holds a sub-resource without
\* id, which was named under the root.
C15_Witness ==
    /\ built.done
    /\ built.ok
    /\ IdsBelow(built.obj) = {<<"y">>}
    /\ uuid = 1
    /\ InStore(quad(namedNode(<<"y">>), <<"p:item">>, namedNode(ROOT \o <<"#", "1">>)))

(* ------------------------------ type discovery ------------------------ *)
\* The term the last decodeResource call was made on.
LastTerm == IF last.blank THEN blankNode(last.node) ELSE namedNode(last.node)

\* The rdf:type URIs of the term, in the order the store enumerated them.
TypesEnumerated ==
    LET ts == SelectSeq(store, LAMBDA q : q.s = LastTerm /\ q.p = RDF_TYPE)
    IN  [j \in 1..Len(ts) |-> Reorder(ts, last.perm)[j].o.value]

\* The key of the first registered type of the sequence of type URIs.
FirstRegistered(ts) ==
    CHOOSE k \in DOMAIN defs :
        \E i \in 1..Len(ts) :
            /\ defs[k].uri = ts[i]
            /\ \A j \in 1..(i - 1) : \A k2 \in DOMAIN defs : defs[k2].uri # ts[j]

\* C16: the type of the object decodeResource returns is the key of the first
\* registered rdf:type of the node whenever it has one, whatever expected type
\* was passed; the expected type is the type only when the node has none;
\* the id is the URI of a named node and '_:' + the label of a blank node.
C16_TypePrecedence ==
    last.op = "decodeResource" =>
        \E ts \in {TypesEnumerated} :
            IF \E i \in 1..Len(ts) : \E k \in DOMAIN defs : defs[k].uri = ts[i]
            THEN /\ last.ok
                 /\ Get(last.val, "type") = SV(FirstRegistered(ts))
                 /\ Get(last.val, "id") = SV(IF last.blank THEN <<"_", ":">> \o last.node ELSE last.node)
            ELSE IF last.specifyType # EmptyStr
            THEN /\ last.ok
                 /\ Get(last.val, "type") = SV(last.specifyType)
                 /\ Get(last.val, "id") = SV(IF last.blank THEN <<"_", ":">> \o last.node ELSE last.node)
            ELSE last.ok /\ last.val = EmptyObject

\* A named node whose first enumerated rdf:type is not registered and whose
\* second is was decoded with another expected type.
C16_Witness ==
    /\ last.op = "decodeResource"
    /\ ~last.blank
    /\ TypesEnumerated = << <<"T:Alien">>, <<"T:Kid">> >>
    /\ last.specifyType = TTot
    /\ Get(last.val, "type") = SV(TKid)

\* A blank node with a registered rdf:type was decoded.
BlankWitness ==
    /\ last.op = "decodeResource"
    /\ last.blank
    /\ last.ok
    /\ Get(last.val, "id") = SV(<<"_", ":", "b">>)
    /\ Get(last.val, "type") = SV(TTot)
    /\ last.specifyType = TBase

(* -------------------- the expected type of a sub-resource ------------- *)
\* The sub-resource without rdf:type as decodeResource returns it when it is
\* given the type key Base.
UntypedAsBase ==
    IF InStore(quad(namedNode(UNTYPED), <<"p:label">>, literal(Str1("a"))))
    THEN OV([id |-> SV(UNTYPED), type |-> SV(TBase), label |-> Str1("a")])
    ELSE OV([id |-> SV(UNTYPED), type |-> SV(TBase)])

DirectLink == quad(namedNode(ROOT), <<"p:items">>, namedNode(UNTYPED))
ListLink == quad(namedNode(ROOT), <<"p:items">>, namedNode(LIST))

\* The last call decoded the root as a Box.
DecodedRootBox ==
    /\ last.op = "decodeResource"
    /\ last.node = ROOT
    /\ last.specifyType = TBox
    /\ last.ok

\* C17: a sub-resource of a property that is not multi-type is decoded with
\* the property's declared type as fallback, as a direct value and as an
\* element of an ItemList alike: one without registered rdf:type decodes to the
\* same non-empty object in both shapes; under a multi-type property it gets
\* no fallback type.
C17_HintShapeIndependent ==
    DecodedRootBox =>
        /\ (InStore(DirectLink) /\ ~InStore(ListLink))
                => Get(last.val, "items") = AV(<<UntypedAsBase>>)
        /\ (InStore(ListLink) /\ ~InStore(DirectLink))
                => Get(last.val, "items") = AV(<<UntypedAsBase>>)
        /\ InStore(quad(namedNode(ROOT), <<"p:item">>, namedNode(UNTYPED)))
                => Get(last.val, "item") = UntypedAsBase
        /\ InStore(quad(namedNode(ROOT), <<"p:any">>, namedNode(UNTYPED)))
                => Get(last.val, "any") = EmptyObject

\* The part that holds: the direct shapes get the declared type, the
\* multi-type property none.
DirectShapeUsesHint ==
    DecodedRootBox =>
        /\ (InStore(DirectLink) /\ ~InStore(ListLink))
                => Get(last.val, "items") = AV(<<UntypedAsBase>>)
        /\ InStore(quad(namedNode(ROOT), <<"p:item">>, namedNode(UNTYPED)))
                => Get(last.val, "item") = UntypedAsBase
        /\ InStore(quad(namedNode(ROOT), <<"p:any">>, namedNode(UNTYPED)))
                => Get(last.val, "any") = EmptyObject

(* ------------------------------- termination -------------------------- *)
\* C18: decodeResource returns for every finite store and start node, also
\* when the resources of the store refer to one another in a cycle: the calls
\* it nests are bounded by the size of the graph and never fill the call
\* stack.
C18_DecodeReturns == last.op = "decodeResource" => ~last.exhausted

\* The node is the subject of a quad whose object is the root.
LinksToRoot(n) == \E i \in 1..Len(store) : store[i].s = n /\ store[i].o = namedNode(ROOT)

\* The part that holds: from a store in which no quad leads back to the root
\* the call returns, a node that two quads refer to included.
DecodeReturnsWithoutCycle ==
    (last.op = "decodeResource" /\ \A n \in Subjects : ~LinksToRoot(n)) => last.ok

=========================================================================
